---- MODULE Spec2Model ----
(***************************************************************************)
(* Model of src/app.py: the nodal admittance matrix builder calculate_ybus, *)
(* the display formatter format_complex, and the submit handler of main    *)
(* (validation gate, call of calculate_ybus, rendering of the table).      *)
(*                                                                         *)
(* Numbers.  A complex admittance is a record [re, im] of integers that    *)
(* count units of 1/Scale siemens; sums and differences of such values are *)
(* exact.  A float handed to format_complex is a sign bit and a magnitude  *)
(* in units of 10^-(Digits+1), so that negative zero and the rounding of   *)
(* the sixth fractional digit are both represented.                        *)
(***************************************************************************)
EXTENDS Integers, Sequences, FiniteSets

VARIABLES pc, caller, calls, n_nodes, branches, idx, Ybus, error, result,
          valid, messages, table, z, text

vars == <<pc, caller, calls, n_nodes, branches, idx, Ybus, error, result,
          valid, messages, table, z, text>>

\* ------------------------------------------------------------ bounds
MaxNodes == 3
MaxBranches == 2

\* ------------------------------------------------- program constants
\* min_value of the "number of nodes" widget
MinNodes == 2
\* min_value of the "number of branches" widget
MinBranches == 1
\* min_value of the "Nodo inicial" widget
MinFrom == 1
\* min_value of the "Nodo final" widget
MinTo == 0
\* fractional digits of the ".5f" format
Digits == 5
\* denominator of the fixed-point unit the complex entries are counted in
Scale == 2

\* ------------------------------------------------------ complex values
Zero == [re |-> 0, im |-> 0]
CAdd(a, b) == [re |-> a.re + b.re, im |-> a.im + b.im]
CSub(a, b) == [re |-> a.re - b.re, im |-> a.im - b.im]

\* complex(resistance, reactance), in ohms
Impedance(b) == [re |-> b.resistance, im |-> b.reactance]

\* 1 / Z: ZeroDivisionError on Z = 0, else conj(Z) / |Z|^2 in units of
\* 1/Scale (the inputs are chosen so that the quotient is exact)
Reciprocal(zz) ==
    IF zz = Zero THEN [raised |-> TRUE, val |-> Zero]
    ELSE LET d == zz.re * zz.re + zz.im * zz.im
         IN  [raised |-> FALSE,
              val |-> [re |-> (Scale * zz.re) \div d,
                       im |-> (0 - Scale * zz.im) \div d]]

\* the admittance computed without the test of Z
AdmittanceUnguarded(b) == Reciprocal(Impedance(b))

\* Y = 1 / Z if Z != 0 else 0
Admittance(b) ==
    IF Impedance(b) # Zero
    THEN Reciprocal(Impedance(b))
    ELSE [raised |-> FALSE, val |-> Zero]

\* Y_shunt = complex(0, y_shunt_imag)
ShuntAdmittance(b) == [re |-> 0, im |-> b.y_shunt_imag]

\* ------------------------------------------------------------ matrices
None == <<>>
Rows(n) == 0 .. (n - 1)
Cells(n) == Rows(n) \X Rows(n)

\* np.zeros((n_nodes, n_nodes), dtype=complex)
Zeros(n) == [rc \in Cells(n) |-> Zero]

\* numpy accepts an index k of an axis of length n when -n <= k < n
InBounds(n, k) == (0 - n) <= k /\ k < n
\* and a negative index counts from the end of the axis
Position(n, k) == IF k < 0 THEN k + n ELSE k

\* Ybus[r, c] += v  and  Ybus[r, c] -= v  (r, c in bounds)
AddAt(n, M, r, c, v) ==
    LET rc == <<Position(n, r), Position(n, c)>>
    IN  [M EXCEPT ![rc] = CAdd(M[rc], v)]
SubAt(n, M, r, c, v) ==
    LET rc == <<Position(n, r), Position(n, c)>>
    IN  [M EXCEPT ![rc] = CSub(M[rc], v)]

\* --------------------------------------------- calculate_ybus, one branch
Ok(M) == [M |-> M, error |-> "none"]
Raise(M, e) == [M |-> M, error |-> e]

\* i = branch['from'] - 1
NearEnd(b) == b.from - 1

\* a far end that never becomes None: ground (to = 0) is indexed as to - 1
FarEndNoGround(b) == [none |-> FALSE, at |-> b.to - 1]

\* j = branch['to'] - 1 if branch['to'] != 0 else None
FarEnd(b) ==
    IF b.to # 0 THEN [none |-> FALSE, at |-> b.to - 1]
    ELSE [none |-> TRUE, at |-> 0]

\* the two-node stamp with the last statement written as "+= Y"
StampTwoNodesSignSlip(n, M, i, j, Y) ==
    IF ~InBounds(n, i) THEN Raise(M, "IndexError")
    ELSE LET M1 == AddAt(n, M, i, i, Y)
         IN  IF ~InBounds(n, j) THEN Raise(M1, "IndexError")
             ELSE Ok(AddAt(n, SubAt(n, AddAt(n, M1, j, j, Y), i, j, Y), j, i, Y))

\* the two-node stamp with the statement for Ybus[j, i] left out
StampTwoNodesOneSided(n, M, i, j, Y) ==
    IF ~InBounds(n, i) THEN Raise(M, "IndexError")
    ELSE LET M1 == AddAt(n, M, i, i, Y)
         IN  IF ~InBounds(n, j) THEN Raise(M1, "IndexError")
             ELSE Ok(SubAt(n, AddAt(n, M1, j, j, Y), i, j, Y))

\* the two-node stamp with the statement for Ybus[j, j] left out
StampTwoNodesNoFarDiagonal(n, M, i, j, Y) ==
    IF ~InBounds(n, i) THEN Raise(M, "IndexError")
    ELSE LET M1 == AddAt(n, M, i, i, Y)
         IN  IF ~InBounds(n, j) THEN Raise(M1, "IndexError")
             ELSE Ok(SubAt(n, SubAt(n, M1, i, j, Y), j, i, Y))

\* Ybus[i, i] += Y; Ybus[j, j] += Y; Ybus[i, j] -= Y; Ybus[j, i] -= Y
\* executed in this order; the first index out of bounds raises IndexError
\* and leaves the statements before it applied
StampTwoNodes(n, M, i, j, Y) ==
    IF ~InBounds(n, i) THEN Raise(M, "IndexError")
    ELSE LET M1 == AddAt(n, M, i, i, Y)
         IN  IF ~InBounds(n, j) THEN Raise(M1, "IndexError")
             ELSE Ok(SubAt(n, SubAt(n, AddAt(n, M1, j, j, Y), i, j, Y), j, i, Y))

\* Ybus[i, i] += Y
StampGround(n, M, i, Y) ==
    IF ~InBounds(n, i) THEN Raise(M, "IndexError")
    ELSE Ok(AddAt(n, M, i, i, Y))

\* the shunt stamp with the far-end statement left out
StampShuntNearOnly(n, M, i, j, Ys) == AddAt(n, M, i, i, Ys)

\* the shunt stamp written with "=" in place of "+="
StampShuntAssign(n, M, i, j, Ys) ==
    LET ii == <<Position(n, i), Position(n, i)>>
        M1 == [M EXCEPT ![ii] = Ys]
    IN  IF j.none THEN M1
        ELSE [M1 EXCEPT ![<<Position(n, j.at), Position(n, j.at)>>] = Ys]

\* Ybus[i, i] += Y_shunt; if j is not None: Ybus[j, j] += Y_shunt
\* (reached only after the series stamp indexed i and j without an error)
StampShunt(n, M, i, j, Ys) ==
    LET M1 == AddAt(n, M, i, i, Ys)
    IN  IF j.none THEN M1 ELSE AddAt(n, M1, j.at, j.at, Ys)

\* the body of "for branch in branches"
ProcessBranch(n, M, b) ==
    LET i == NearEnd(b)
        j == FarEnd(b)
        Y == Admittance(b)
    IN  IF Y.raised THEN Raise(M, "ZeroDivisionError")
        ELSE LET s == IF j.none THEN StampGround(n, M, i, Y.val)
                      ELSE StampTwoNodes(n, M, i, j.at, Y.val)
             IN  IF s.error # "none" THEN s
                 ELSE Ok(StampShunt(n, s.M, i, j, ShuntAdmittance(b)))

\* the loop from branch k on, stopping at the first exception
RECURSIVE Loop(_, _, _, _)
Loop(n, M, bl, k) ==
    IF k > Len(bl) THEN Ok(M)
    ELSE LET s == ProcessBranch(n, M, bl[k])
         IN  IF s.error # "none" THEN s ELSE Loop(n, s.M, bl, k + 1)

\* calculate_ybus(n_nodes, branches): the matrix returned, or the exception
calculate_ybus(n, bl) == Loop(n, Zeros(n), bl, 1)

\* -------------------------------------------------------- format_complex
\* a float: sign bit and magnitude in units of 10^-(Digits+1)
RECURSIVE Pow10(_)
Pow10(k) == IF k = 0 THEN 1 ELSE 10 * Pow10(k - 1)
Micro == Pow10(Digits + 1)
Float(v) == [neg |-> v < 0, mag |-> IF v < 0 THEN 0 - v ELSE v]

\* x >= 0 and x < 0 (negative zero is not below zero)
GeZero(x) == ~x.neg \/ x.mag = 0
\* abs(x)
Abs(x) == [neg |-> FALSE, mag |-> x.mag]

Digit == <<"0", "1", "2", "3", "4", "5", "6", "7", "8", "9">>
RECURSIVE IntDigits(_)
IntDigits(k) ==
    IF k < 10 THEN <<Digit[k + 1]>>
    ELSE IntDigits(k \div 10) \o <<Digit[(k % 10) + 1]>>
RECURSIVE FracDigits(_, _)
FracDigits(k, width) ==
    IF width = 0 THEN <<>>
    ELSE FracDigits(k \div 10, width - 1) \o <<Digit[(k % 10) + 1]>>

\* the magnitude rounded to Digits fractional digits, ties to even (a tie
\* is decided by the exact binary value, which the inputs below keep exact)
Rounded(mag) ==
    LET q == mag \div 10
        r == mag % 10
    IN  IF r > 5 \/ (r = 5 /\ q % 2 = 1) THEN q + 1 ELSE q

\* f"{x:.5f}": the sign of the float (kept when the digits round to zero,
\* and for negative zero), integer digits, ".", Digits fractional digits
Fixed(x) ==
    LET q == Rounded(x.mag)
    IN  (IF x.neg THEN <<"-">> ELSE <<>>)
        \o IntDigits(q \div Pow10(Digits)) \o <<".">>
        \o FracDigits(q % Pow10(Digits), Digits)

\* format_complex(z), as the sequence of the characters of the string
format_complex(c) ==
    IF GeZero(c.imag)
    THEN Fixed(c.real) \o <<" ", "+", " ">> \o Fixed(c.imag) \o <<"j">>
    ELSE Fixed(c.real) \o <<" ", "-", " ">> \o Fixed(Abs(c.imag)) \o <<"j">>

\* a matrix entry (units of 1/Scale) as the complex of floats Python holds
Entry(v) == [real |-> Float(v.re * (Micro \div Scale)),
             imag |-> Float(v.im * (Micro \div Scale))]

\* ---------------------------------------------- main: the validation gate
SelfLoopMessage == "El nodo inicial y final no pueden ser iguales"
GroundStartMessage == "El nodo inicial no puede ser 0 (tierra)"

\* one pass of "for branch in branch_data": each test reports and clears valid
RECURSIVE Gate(_, _, _)
Gate(bd, k, acc) ==
    IF k > Len(bd) THEN acc
    ELSE LET b == bd[k]
             a1 == IF b.from = b.to /\ b.to # 0
                   THEN [valid |-> FALSE,
                         messages |-> Append(acc.messages, SelfLoopMessage)]
                   ELSE acc
             a2 == IF b.from = 0
                   THEN [valid |-> FALSE,
                         messages |-> Append(a1.messages, GroundStartMessage)]
                   ELSE a1
         IN  Gate(bd, k + 1, a2)

\* the gate whose verdict is that of the last branch alone
ValidateLastOnly(bd) ==
    IF bd = <<>> THEN [valid |-> TRUE, messages |-> <<>>]
    ELSE Gate(<<bd[Len(bd)]>>, 1, [valid |-> TRUE, messages |-> <<>>])

\* valid = True; for branch in branch_data: ...
Validate(bd) == Gate(bd, 1, [valid |-> TRUE, messages |-> <<>>])

\* ----------------------------------------------------------------- inputs
\* (resistance, reactance, y_shunt_imag): ohms, ohms, units of 1/Scale
ElectricalInputs == {<<0, 0, 1>>, <<0, 1, 0>>, <<1, 1, 1>>}
RangeElectricalInputs == {<<1, 1, 1>>}

BranchRecords(froms, tos, elec) ==
    {[from |-> f, to |-> t, resistance |-> e[1], reactance |-> e[2],
      y_shunt_imag |-> e[3]] : f \in froms, t \in tos, e \in elec}

\* the data model's invariant: from in [1, n_nodes], to in [0, n_nodes]
InRange(n, b) == 1 <= b.from /\ b.from <= n /\ 0 <= b.to /\ b.to <= n
InRangeBranches(n) == BranchRecords(1 .. n, 0 .. n, ElectricalInputs)
\* what the widgets of one form line can hold
FormBranches(n) == BranchRecords(MinFrom .. n, MinTo .. n, ElectricalInputs)
\* node numbers on both sides of the valid range, for a caller that
\* does not validate
AnyBranches(n) ==
    BranchRecords((0 - n) .. (n + 1), (0 - n) .. (n + 1), RangeElectricalInputs)

Lists(S, lo, hi) == UNION {[1 .. k -> S] : k \in lo .. hi}

\* magnitudes of the floats handed to format_complex, in units of
\* 10^-(Digits+1): 0, 0.000004, 1/64 and 3/64 (exact ties), 0.999999,
\* 1.23456, 7.89123
Magnitudes == {0, 4, 15625, 46875, 999999, 1234560, 7891230}
FloatInputs == {[neg |-> s, mag |-> m] : s \in BOOLEAN, m \in Magnitudes}
ComplexInputs == {[real |-> x, imag |-> y] : x \in FloatInputs, y \in FloatInputs}

\* ---------------------------------------------------------- state machine
Init ==
    /\ pc = "idle"
    /\ caller = "none"
    /\ calls = 0
    /\ n_nodes = 0
    /\ branches = <<>>
    /\ idx = 0
    /\ Ybus = None
    /\ error = "none"
    /\ result = None
    /\ valid = FALSE
    /\ messages = <<>>
    /\ table = None
    /\ z = [real |-> Float(0), imag |-> Float(0)]
    /\ text = <<>>

\* entry of calculate_ybus: Ybus = np.zeros(...), the loop at its first branch
Enter(n, bl, who) ==
    /\ pc' = "loop"
    /\ caller' = who
    /\ calls' = calls + 1
    /\ n_nodes' = n
    /\ branches' = bl
    /\ idx' = 1
    /\ Ybus' = Zeros(n)

\* an importing caller calls calculate_ybus with an in-range branch list
Call ==
    /\ pc = "idle"
    /\ \E n \in MinNodes .. MaxNodes :
         \E bl \in Lists(InRangeBranches(n), 0, MaxBranches) :
            Enter(n, bl, "import")
    /\ UNCHANGED <<error, result, valid, messages, table, z, text>>

\* an importing caller calls calculate_ybus with node numbers it never validated
CallUnvalidated ==
    /\ pc = "idle"
    /\ \E n \in MinNodes .. MaxNodes :
         \E bl \in Lists(AnyBranches(n), 0, MaxBranches) :
            Enter(n, bl, "import")
    /\ UNCHANGED <<error, result, valid, messages, table, z, text>>

\* one iteration of the loop of calculate_ybus; an exception ends the call
Iterate ==
    /\ pc = "loop"
    /\ idx <= Len(branches)
    /\ LET s == ProcessBranch(n_nodes, Ybus, branches[idx])
       IN  /\ Ybus' = s.M
           /\ error' = s.error
           /\ pc' = IF s.error = "none" THEN "loop" ELSE "raised"
           /\ idx' = IF s.error = "none" THEN idx + 1 ELSE idx
    /\ UNCHANGED <<caller, calls, n_nodes, branches, result, valid, messages,
                   table, z, text>>

\* return Ybus
Return ==
    /\ pc = "loop"
    /\ idx > Len(branches)
    /\ result' = Ybus
    /\ pc' = IF caller = "main" THEN "render" ELSE "returned"
    /\ UNCHANGED <<caller, calls, n_nodes, branches, idx, Ybus, error, valid,
                   messages, table, z, text>>

\* main, a run with the form submitted: the widgets' values are collected,
\* the gate runs, and calculate_ybus is entered only if valid
Submit ==
    /\ pc = "idle"
    /\ \E n \in MinNodes .. MaxNodes :
         \E bl \in Lists(FormBranches(n), MinBranches, MaxBranches) :
            LET g == Validate(bl)
            IN  /\ valid' = g.valid
                /\ messages' = g.messages
                /\ IF g.valid
                   THEN Enter(n, bl, "main")
                   ELSE /\ pc' = "done"
                        /\ caller' = "main"
                        /\ n_nodes' = n
                        /\ branches' = bl
                        /\ UNCHANGED <<calls, idx, Ybus>>
    /\ UNCHANGED <<error, result, table, z, text>>

\* main after the call: every entry formatted, the table shown
Render ==
    /\ pc = "render"
    /\ table' = [rc \in Cells(n_nodes) |-> format_complex(Entry(result[rc]))]
    /\ pc' = "done"
    /\ UNCHANGED <<caller, calls, n_nodes, branches, idx, Ybus, error, result,
                   valid, messages, z, text>>

\* a call of format_complex(z)
Format ==
    /\ pc = "idle"
    /\ \E c \in ComplexInputs :
         /\ z' = c
         /\ text' = format_complex(c)
    /\ pc' = "formatted"
    /\ UNCHANGED <<caller, calls, n_nodes, branches, idx, Ybus, error, result,
                   valid, messages, table>>

\* calculate_ybus called with in-range branch lists
Next == Call \/ Iterate \/ Return
Spec == Init /\ [][Next]_vars

\* calculate_ybus called with unvalidated node numbers
NextRange == CallUnvalidated \/ Iterate \/ Return
SpecRange == Init /\ [][NextRange]_vars

\* main with the form submitted; the run of the handler is followed through
\* the gate, the loop of calculate_ybus, its return and the table
NextMain == Submit \/ Iterate \/ Return \/ Render
SpecMain == Init /\ [][NextMain]_vars

\* format_complex called on its own
NextFormat == Format
SpecFormat == Init /\ [][NextFormat]_vars

\* ================================================================ claims
B2I(p) == IF p THEN 1 ELSE 0
CTimes(k, a) == [re |-> k * a.re, im |-> k * a.im]
\* the branch the loop is at, its indices and its two admittances
Current == branches[idx]
Processed == pc = "loop" /\ idx <= Len(branches) /\ idx' = idx + 1
Last == branches[idx - 1]
AfterBranch == pc = "loop" /\ idx > 1
NearCell(b) == <<b.from - 1, b.from - 1>>
FarCell(b) == <<b.to - 1, b.to - 1>>
RECURSIVE RowSum(_, _, _)
RowSum(M, r, c) ==
    IF c < 0 THEN Zero ELSE CAdd(M[<<r, c>>], RowSum(M, r, c - 1))
Without(bl, k) == SubSeq(bl, 1, k - 1) \o SubSeq(bl, k + 1, Len(bl))
Orders(n) == {p \in [1 .. n -> 1 .. n] : \A a, b \in 1 .. n : p[a] = p[b] => a = b}
Grounded(bl, r) == \E k \in 1 .. Len(bl) : bl[k].to = 0 /\ bl[k].from = r + 1

\* C1: processing a branch between two real nodes (to # 0) with series
\* admittance Y adds Y to M[i][i] and M[j][j] and subtracts Y from M[i][j] and
\* M[j][i], i = from-1, j = to-1; beyond that only the shunt term jB on the two
\* diagonal entries changes, and every other entry keeps its value.
C1_TwoNodeStamp ==
    [][(Processed /\ Current.to # 0) =>
        LET b == Current
            Y == Admittance(b).val
            S == ShuntAdmittance(b)
            i == b.from - 1
            j == b.to - 1
        IN  Ybus' = [rc \in Cells(n_nodes) |->
                CAdd(Ybus[rc],
                     CAdd(CTimes(B2I(rc = <<i, i>>) + B2I(rc = <<j, j>>)
                                 - B2I(rc = <<i, j>>) - B2I(rc = <<j, i>>), Y),
                          CTimes(B2I(rc = <<i, i>>) + B2I(rc = <<j, j>>), S)))]
      ]_vars

\* C1 witness: a branch between two different real nodes, with nonzero series
\* and shunt admittance, has just been processed on top of an earlier branch.
C1_Witness ==
    /\ AfterBranch /\ idx = 3
    /\ Last.to # 0 /\ Last.to # Last.from
    /\ Admittance(Last).val # Zero /\ Last.y_shunt_imag # 0
    /\ Ybus[<<Last.from - 1, Last.to - 1>>] # Zero

\* C2: processing a ground branch (to = 0) changes M[i][i] alone, i = from-1
\* (by the series admittance Y, and the branch's shunt term): every
\* off-diagonal entry and every other diagonal entry keeps its value.
C2_GroundStamp ==
    [][(Processed /\ Current.to = 0) =>
        LET b == Current
            ii == NearCell(b)
        IN  \A rc \in Cells(n_nodes) :
               Ybus'[rc] = IF rc = ii
                           THEN CAdd(Ybus[rc], CAdd(Admittance(b).val,
                                                    ShuntAdmittance(b)))
                           ELSE Ybus[rc]
      ]_vars

\* C2 witness: a ground branch with nonzero admittance has just been
\* processed in a matrix whose other entries an earlier branch made nonzero.
C2_Witness ==
    /\ AfterBranch /\ idx = 3
    /\ Last.to = 0 /\ Admittance(Last).val # Zero
    /\ branches[1].to # 0 /\ branches[1].to # branches[1].from
    /\ \A rc \in Cells(n_nodes) : Ybus[rc] # Zero

\* C3: processing a branch with shunt susceptance B adds jB once to M[i][i]
\* whatever the far end is, once to M[j][j] exactly when to # 0, and to no
\* off-diagonal entry: the matrix is the one the same branch with B = 0
\* produces, plus jB on those diagonal entries.
C3_ShuntStamp ==
    [][Processed =>
        LET b == Current
            S == ShuntAdmittance(b)
            bare == ProcessBranch(n_nodes, Ybus, [b EXCEPT !.y_shunt_imag = 0]).M
        IN  Ybus' = [rc \in Cells(n_nodes) |->
                CAdd(bare[rc],
                     CTimes(B2I(rc = NearCell(b))
                            + B2I(b.to # 0 /\ rc = FarCell(b)), S))]
      ]_vars

\* C3 witness: a ground branch and then a two-node branch, both with a
\* nonzero shunt susceptance, have been processed.
C3_Witness ==
    /\ AfterBranch /\ idx = 3
    /\ branches[1].to = 0 /\ branches[1].y_shunt_imag # 0
    /\ Last.to # 0 /\ Last.to # Last.from /\ Last.y_shunt_imag # 0

\* C4: on submission the gate rejects the whole list (an error is reported,
\* calculate_ybus is never called, no matrix and no table exist) if some
\* branch has from = 0, or from = to with to # 0; otherwise calculate_ybus is
\* called, exactly once.  The verdict of the gate is also compared with that
\* condition on branch lists whose from may be 0.
Rejected(b) == b.from = 0 \/ (b.from = b.to /\ b.to # 0)
GateLists ==
    Lists(BranchRecords(0 .. MinNodes, 0 .. MinNodes, RangeElectricalInputs),
          0, MinNodes)
C4_ValidationGate ==
    /\ caller = "main" =>
         LET bad == \E k \in 1 .. Len(branches) : Rejected(branches[k])
         IN  /\ valid <=> ~bad
             /\ bad => /\ pc = "done" /\ calls = 0 /\ messages # <<>>
                       /\ Ybus = None /\ result = None /\ table = None
             /\ ~bad => /\ calls = 1 /\ messages = <<>>
                        /\ pc \in {"loop", "render", "done"}
                        /\ pc = "done" => table # None
    /\ pc = "idle" =>
         \A bd \in GateLists :
            /\ Validate(bd).valid <=> ~\E k \in 1 .. Len(bd) : Rejected(bd[k])
            /\ Validate(bd).valid <=> Validate(bd).messages = <<>>

\* C4 witness: a submitted list whose first branch is a self-loop on a real
\* node and whose last branch is acceptable has been rejected.
C4_Witness ==
    /\ caller = "main" /\ pc = "done" /\ ~valid
    /\ Len(branches) = 2
    /\ branches[1].from = branches[1].to
    /\ ~Rejected(branches[2])

\* C5: a call with a branch whose from is outside [1, n_nodes] or whose to is
\* outside [0, n_nodes] ends in an index-range error and returns no matrix.
C5_OutOfRangeFailsLoudly ==
    (/\ pc \in {"returned", "raised"}
     /\ \E k \in 1 .. Len(branches) : ~InRange(n_nodes, branches[k]))
    => (pc = "raised" /\ error = "IndexError" /\ result = None)

\* C6: a branch with resistance = 0 and reactance = 0 never raises a division
\* error, and the matrix returned with it is the matrix returned without it
\* plus that branch's shunt terms on the diagonal.
C6_ZeroImpedance ==
    /\ error # "ZeroDivisionError"
    /\ pc = "returned" =>
         \A k \in 1 .. Len(branches) :
            LET b == branches[k]
                rest == calculate_ybus(n_nodes, Without(branches, k))
            IN  (b.resistance = 0 /\ b.reactance = 0) =>
                  /\ rest.error = "none"
                  /\ result = [rc \in Cells(n_nodes) |->
                        CAdd(rest.M[rc],
                             CTimes(B2I(rc = NearCell(b))
                                    + B2I(b.to # 0 /\ rc = FarCell(b)),
                                    ShuntAdmittance(b)))]

\* C6 witness: a matrix was returned for a list holding a zero-impedance
\* branch with a shunt term and a branch of nonzero admittance.
C6_Witness ==
    /\ pc = "returned" /\ Len(branches) = 2
    /\ branches[1].resistance = 0 /\ branches[1].reactance = 0
    /\ branches[1].y_shunt_imag # 0
    /\ Admittance(branches[2]).val # Zero

C8_Symmetric ==
    /\ pc \in {"loop", "returned"} =>
         \A r, c \in Rows(n_nodes) : Ybus[<<r, c>>] = Ybus[<<c, r>>]
    /\ pc = "returned" =>
         \A r, c \in Rows(n_nodes) : result[<<r, c>>] = result[<<c, r>>]

\* C8 witness: a matrix with nonzero off-diagonal entries and two different
\* diagonal entries was returned.
C8_Witness ==
    /\ pc = "returned"
    /\ result[<<0, 1>>] # Zero
    /\ result[<<0, 0>>] # result[<<1, 1>>]

\* C9: the matrix returned does not depend on the order of the branches:
\* every permutation of the list gives the matrix this call returned.
C9_OrderIndependent ==
    pc = "returned" =>
      \A p \in Orders(Len(branches)) :
         LET other == calculate_ybus(n_nodes,
                         [k \in 1 .. Len(branches) |-> branches[p[k]]])
         IN  other.error = "none" /\ other.M = result

\* C9 witness: a matrix was returned for a list of at least two branches
\* that differ in their nodes and in their admittances.
C9_Witness ==
    /\ pc = "returned" /\ Len(branches) >= 2
    /\ branches[1].from # branches[2].from
    /\ Admittance(branches[1]).val # Admittance(branches[2]).val
    /\ branches[1].y_shunt_imag # branches[2].y_shunt_imag

\* C10: format_complex(z) is the real part with five fractional digits, then
\* " + " and the imaginary part when z.imag >= 0, or " - " and its absolute
\* value when z.imag < 0, with five fractional digits, then "j"; the
\* imaginary field carries no minus sign of its own; and
\* format_complex(1.23456 - 7.89123j) is "1.23456 - 7.89123j".
ImagField == SubSeq(text, Len(Fixed(z.real)) + 4, Len(text) - 1)
ExampleInput == [real |-> [neg |-> FALSE, mag |-> 1234560],
                 imag |-> [neg |-> TRUE, mag |-> 7891230]]
ExampleText == <<"1", ".", "2", "3", "4", "5", "6", " ", "-", " ",
                 "7", ".", "8", "9", "1", "2", "3", "j">>
C10_FormatComplex ==
    pc = "formatted" =>
      /\ text = Fixed(z.real)
                \o (IF GeZero(z.imag) THEN <<" ", "+", " ">> ELSE <<" ", "-", " ">>)
                \o Fixed(IF GeZero(z.imag) THEN z.imag ELSE Abs(z.imag))
                \o <<"j">>
      /\ \A k \in 1 .. Len(ImagField) : ImagField[k] # "-"
      /\ z = ExampleInput => text = ExampleText

====
